---- MODULE Spec2Model ----
(***************************************************************************)
(* serde_sated: the derive macro deserialize_enum_with_untagged_as_fallback *)
(* (src/src/lib.rs) as a state machine.  A declared enum is handed to       *)
(* derive_enum, which either panics (a build failure) or expands to an      *)
(* impl of Deserialize; the expansion is compiled; the compiled            *)
(* deserialize function is then applied to JSON documents.                  *)
(*                                                                         *)
(* Rust's backtick in messages is written as a single quote here.          *)
(***************************************************************************)
EXTENDS Naturals, Sequences, FiniteSets, TLC

VARIABLES input, pc, expansion, value, result

vars == <<input, pc, expansion, value, result>>

\* Longest list of variants of a declared enum.
MaxVariants == 3

(***************************************************************************)
(* The macro's input: syn's DeriveInput, its attributes, variants, fields.  *)
(***************************************************************************)

\* A nested meta item of an attribute: `untagged`, or `tag = "resourceType"`.
Meta(name) == [name |-> name, hasValue |-> FALSE, value |-> ""]

MetaNameValue(name, lit) == [name |-> name, hasValue |-> TRUE, value |-> lit]

\* #[path(metas)]
Attribute(path, metas) == [path |-> path, metas |-> metas]

\* The type of a field: Type::Path with its segments, or any other syn::Type.
TypePath(segments) == [isPath |-> TRUE, segments |-> segments]

TypeOther == [isPath |-> FALSE, segments |-> <<>>]

Variant(ident, attrs, fields) == [ident |-> ident, attrs |-> attrs, fields |-> fields]

DeriveInput(attrs, ident, data, variants) ==
    [attrs |-> attrs, ident |-> ident, data |-> data, variants |-> variants]

\* struct EnumVariant { ident, content_type }
EnumVariant(ident, content_type) == [ident |-> ident, content_type |-> content_type]

\* Option<T>: None carries a placeholder of T's shape.
Some(v) == [some |-> TRUE, v |-> v]

NoneStr == [some |-> FALSE, v |-> ""]

NoneVariant == [some |-> FALSE, v |-> EnumVariant("", "")]

(***************************************************************************)
(* path_to_ident: the single identifier, or the segments joined by "::".    *)
(***************************************************************************)
RECURSIVE JoinSegments(_, _)
JoinSegments(segments, i) ==
    IF i > Len(segments) THEN ""
    ELSE IF i = Len(segments) THEN segments[i]
    ELSE segments[i] \o "::" \o JoinSegments(segments, i + 1)

path_to_ident(path) ==
    IF Len(path.segments) = 1 THEN path.segments[1]
    ELSE JoinSegments(path.segments, 1)

(***************************************************************************)
(* syn's Attribute::parse_nested_meta as the two callbacks use it: after    *)
(* the callback returns Ok, the item must be followed by ',' or the end,   *)
(* so an item whose `= value` the callback did not consume is a parse      *)
(* error; both callers unwrap() the result.                                 *)
(***************************************************************************)
RECURSIVE UntaggedNestedMeta(_, _, _)
UntaggedNestedMeta(metas, i, is_untagged) ==
    IF i > Len(metas) THEN [err |-> FALSE, is_untagged |-> is_untagged]
    ELSE LET flag == is_untagged \/ metas[i].name = "untagged"
         IN  IF metas[i].hasValue
             THEN [err |-> TRUE, is_untagged |-> flag]
             ELSE UntaggedNestedMeta(metas, i + 1, flag)

RECURSIVE UntaggedAttributes(_, _)
UntaggedAttributes(attributes, i) ==
    IF i > Len(attributes) THEN [panic |-> FALSE, value |-> FALSE]
    ELSE IF attributes[i].path # "serde" THEN UntaggedAttributes(attributes, i + 1)
    ELSE LET r == UntaggedNestedMeta(attributes[i].metas, 1, FALSE)
         IN  IF r.err THEN [panic |-> TRUE, value |-> FALSE]
             ELSE IF r.is_untagged THEN [panic |-> FALSE, value |-> TRUE]
             ELSE UntaggedAttributes(attributes, i + 1)

has_serde_untagged_attribute(attributes) == UntaggedAttributes(attributes, 1)

RECURSIVE TagContentNestedMeta(_, _, _)
TagContentNestedMeta(metas, i, st) ==
    IF i > Len(metas) THEN st
    ELSE LET m == metas[i]
         IN  IF m.name = "tag"
             THEN IF m.hasValue
                  THEN TagContentNestedMeta(metas, i + 1,
                           [st EXCEPT !.tag_attribute = Some(m.value)])
                  ELSE [st EXCEPT !.err = TRUE]
             ELSE IF m.name = "content"
             THEN IF m.hasValue
                  THEN TagContentNestedMeta(metas, i + 1,
                           [st EXCEPT !.content_attribute = Some(m.value)])
                  ELSE [st EXCEPT !.err = TRUE]
             ELSE IF m.hasValue
                  THEN [st EXCEPT !.err = TRUE]
                  ELSE TagContentNestedMeta(metas, i + 1, st)

RECURSIVE TagContentAttributes(_, _, _)
TagContentAttributes(attributes, i, st) ==
    IF i > Len(attributes) THEN st
    ELSE IF attributes[i].path # "serde" THEN TagContentAttributes(attributes, i + 1, st)
    ELSE LET r == TagContentNestedMeta(attributes[i].metas, 1, st)
         IN  IF r.err THEN r ELSE TagContentAttributes(attributes, i + 1, r)

ParseErrorMessage == "called 'Result::unwrap()' on an 'Err' value: expected ','"

TagContentMessage ==
    "Tag and content attributes must be set, ex. #[serde(tag = \"resourceType\", content = \"resource\")]"

get_tag_and_content_attributes(attributes) ==
    LET st == TagContentAttributes(attributes, 1,
                  [err |-> FALSE, tag_attribute |-> NoneStr, content_attribute |-> NoneStr])
    IN  IF st.err
        THEN [panic |-> TRUE, msg |-> ParseErrorMessage, tag |-> "", content |-> ""]
        ELSE IF ~st.tag_attribute.some \/ ~st.content_attribute.some
        THEN [panic |-> TRUE, msg |-> TagContentMessage, tag |-> "", content |-> ""]
        ELSE [panic |-> FALSE, msg |-> "",
              tag |-> st.tag_attribute.v, content |-> st.content_attribute.v]

(***************************************************************************)
(* The generated decision chain, as the tokens of the text the generators   *)
(* format: an if-arm, the keyword else, the closing block.                  *)
(***************************************************************************)
IfArm(enum_name, lit, ty, ctor) ==
    [kind |-> "if", lit |-> lit, ty |-> ty, enum_name |-> enum_name, ctor |-> ctor]

ElseKeyword == [kind |-> "else", lit |-> "", ty |-> "", enum_name |-> "", ctor |-> ""]

Block(enum_name, ctor) ==
    [kind |-> "block", lit |-> "", ty |-> "", enum_name |-> enum_name, ctor |-> ctor]

\* Faulty variant: the format arguments swapped, the comparison made against {1}.
generate_if_branch_SwappedArguments(enum_name, variant) ==
    << IfArm(enum_name, variant.content_type, variant.content_type, variant.ident) >>

\* if resource_type == "{0}" { let resource = {1}::deserialize(..)?; Ok({enum_name}::{0}(resource)) }
generate_if_branch(enum_name, variant) ==
    << IfArm(enum_name, variant.ident, variant.content_type, variant.ident) >>

\* else { Ok({enum_name}::{}(resource.to_owned())) }
generate_else_branch(enum_name, variant) ==
    << ElseKeyword, Block(enum_name, variant.ident) >>

\* Vec<String>::join(sep)
RECURSIVE Join(_, _, _)
Join(parts, sep, i) ==
    IF i > Len(parts) THEN <<>>
    ELSE IF i = Len(parts) THEN parts[i]
    ELSE parts[i] \o sep \o Join(parts, sep, i + 1)

generate_if_else_tree(enum_name, variants, untagged_variant) ==
    LET if_tree == Join([i \in 1..Len(variants) |-> generate_if_branch(enum_name, variants[i])],
                        << ElseKeyword >>, 1)
        else_branch == generate_else_branch(enum_name, untagged_variant)
    IN  if_tree \o else_branch

(***************************************************************************)
(* derive_enum                                                              *)
(***************************************************************************)
\* for field in &variant.fields: the last field of Type::Path gives the type.
RECURSIVE FieldLoop(_, _, _)
FieldLoop(fields, i, variant_inner_type) ==
    IF i > Len(fields) THEN variant_inner_type
    ELSE IF ~fields[i].isPath THEN FieldLoop(fields, i + 1, variant_inner_type)
    ELSE FieldLoop(fields, i + 1, Some(path_to_ident(fields[i])))

\* Faulty variant: a variant without a resolvable type is skipped, not reported.
RECURSIVE VariantLoop_SkipsUnresolved(_, _, _, _)
VariantLoop_SkipsUnresolved(vs, i, variants, untagged_variant) ==
    IF i > Len(vs)
    THEN [panic |-> FALSE, msg |-> "", variants |-> variants,
          untagged_variant |-> untagged_variant]
    ELSE LET is_untagged == has_serde_untagged_attribute(vs[i].attrs)
             variant_inner_type == FieldLoop(vs[i].fields, 1, NoneStr)
             variant == EnumVariant(vs[i].ident, variant_inner_type.v)
         IN  IF is_untagged.panic
             THEN [panic |-> TRUE, msg |-> ParseErrorMessage, variants |-> <<>>,
                   untagged_variant |-> NoneVariant]
             ELSE IF ~variant_inner_type.some
             THEN VariantLoop_SkipsUnresolved(vs, i + 1, variants, untagged_variant)
             ELSE IF is_untagged.value
             THEN VariantLoop_SkipsUnresolved(vs, i + 1, variants, Some(variant))
             ELSE VariantLoop_SkipsUnresolved(vs, i + 1, Append(variants, variant),
                                              untagged_variant)

\* for variant in &enum_data.variants
RECURSIVE VariantLoop(_, _, _, _)
VariantLoop(vs, i, variants, untagged_variant) ==
    IF i > Len(vs)
    THEN [panic |-> FALSE, msg |-> "", variants |-> variants,
          untagged_variant |-> untagged_variant]
    ELSE LET is_untagged == has_serde_untagged_attribute(vs[i].attrs)
             variant_inner_type == FieldLoop(vs[i].fields, 1, NoneStr)
             variant == EnumVariant(vs[i].ident, variant_inner_type.v)
         IN  IF is_untagged.panic
             THEN [panic |-> TRUE, msg |-> ParseErrorMessage, variants |-> <<>>,
                   untagged_variant |-> NoneVariant]
             ELSE IF ~variant_inner_type.some
             THEN [panic |-> TRUE,
                   msg |-> "Unable to resolve inner type of " \o vs[i].ident,
                   variants |-> <<>>, untagged_variant |-> NoneVariant]
             ELSE IF is_untagged.value
             THEN VariantLoop(vs, i + 1, variants, Some(variant))
             ELSE VariantLoop(vs, i + 1, Append(variants, variant), untagged_variant)

Panicked(msg) ==
    [status |-> "panic", msg |-> msg, enum_name |-> "", tag_attribute |-> "",
     content_attribute |-> "", if_else_tree |-> <<>>]

Expanded(enum_name, tag_attribute, content_attribute, if_else_tree) ==
    [status |-> "expanded", msg |-> "", enum_name |-> enum_name,
     tag_attribute |-> tag_attribute, content_attribute |-> content_attribute,
     if_else_tree |-> if_else_tree]

NotExpanded ==
    [status |-> "none", msg |-> "", enum_name |-> "", tag_attribute |-> "",
     content_attribute |-> "", if_else_tree |-> <<>>]

derive_enum(item) ==
    LET attributes == get_tag_and_content_attributes(item.attrs)
        loop == VariantLoop(item.variants, 1, <<>>, NoneVariant)
    IN  IF attributes.panic THEN Panicked(attributes.msg)
        ELSE IF item.data = "struct"
        THEN Panicked("Unsupported type 'struct', must be 'enum'")
        ELSE IF item.data = "union"
        THEN Panicked("Unsupported type 'union', must be 'enum'")
        ELSE IF Len(item.variants) = 0 THEN Panicked("Enum variants are empty")
        ELSE IF loop.panic THEN Panicked(loop.msg)
        ELSE IF ~loop.untagged_variant.some
        THEN Panicked("No untagged variant specified, use serde::Deserialize instead")
        ELSE Expanded(item.ident, attributes.tag, attributes.content,
                      generate_if_else_tree(item.ident, loop.variants,
                                            loop.untagged_variant.v))

(***************************************************************************)
(* Compiling the expansion.  The chain is the tail expression of the        *)
(* generated fn: it must parse as  if {..} (else if {..})* else {..} ;      *)
(* an arm's  Ok(Enum::V(resource))  needs V to hold exactly the one field   *)
(* whose type the arm deserializes, and the closing block's                 *)
(* Ok(Enum::V(resource.to_owned()))  needs V to hold a serde_json::Value.   *)
(***************************************************************************)
RECURSIVE ParsesAsIfElse(_, _)
ParsesAsIfElse(toks, i) ==
    /\ i + 2 <= Len(toks)
    /\ toks[i].kind = "if"
    /\ toks[i + 1].kind = "else"
    /\ \/ toks[i + 2].kind = "block" /\ i + 2 = Len(toks)
       \/ ParsesAsIfElse(toks, i + 2)

DeserializeTypes == {"u64", "u32", "String", "Complex", "serde_json::Value"}

VariantNamed(item, ident) ==
    CHOOSE v \in {item.variants[i] : i \in 1..Len(item.variants)} : v.ident = ident

TypeChecks(item, tok) ==
    LET v == VariantNamed(item, tok.ctor)
    IN  \/ tok.kind = "else"
        \/ /\ Len(v.fields) = 1
           /\ v.fields[1].isPath
           /\ tok.kind = "if" =>
                  /\ path_to_ident(v.fields[1]) = tok.ty
                  /\ tok.ty \in DeserializeTypes
           /\ tok.kind = "block" => path_to_ident(v.fields[1]) = "serde_json::Value"

Compiles(item, exp) ==
    /\ ParsesAsIfElse(exp.if_else_tree, 1)
    /\ \A i \in 1..Len(exp.if_else_tree) : TypeChecks(item, exp.if_else_tree[i])

(***************************************************************************)
(* serde_json::Value and the decoders the arms delegate to.                 *)
(***************************************************************************)
Null == [kind |-> "null", num |-> 0, str |-> "", members |-> <<>>]

Bool == [kind |-> "bool", num |-> 1, str |-> "", members |-> <<>>]

Array == [kind |-> "array", num |-> 0, str |-> "", members |-> <<>>]

Number(n) == [kind |-> "number", num |-> n, str |-> "", members |-> <<>>]

String(s) == [kind |-> "string", num |-> 0, str |-> s, members |-> <<>>]

\* members: a sequence of <<key, Value>> with distinct keys
Object(members) == [kind |-> "object", num |-> 0, str |-> "", members |-> members]

NoneValue == [some |-> FALSE, v |-> Null]

\* Value::get(&str): None unless the value is an object holding the key.
ValueGet(v, key) ==
    IF v.kind = "object" /\ \E i \in 1..Len(v.members) : v.members[i][1] = key
    THEN Some(v.members[CHOOSE i \in 1..Len(v.members) : v.members[i][1] = key][2])
    ELSE NoneValue

\* Value::as_str()
as_str(v) == IF v.kind = "string" THEN Some(v.str) ELSE NoneStr

Decoded(v) == [ok |-> TRUE, msg |-> "", v |-> v]

DecodeError(msg) == [ok |-> FALSE, msg |-> msg, v |-> Null]

InvalidType(v, expected) == DecodeError("invalid type: " \o v.kind \o ", expected " \o expected)

\* #[derive(Deserialize)] struct Complex { a: u64, b: u64 }: both fields are
\* required, fields it does not know are ignored.
ComplexDeserialize(v) ==
    LET a == ValueGet(v, "a")
        b == ValueGet(v, "b")
    IN  IF v.kind # "object" THEN InvalidType(v, "struct Complex")
        ELSE IF a.some /\ a.v.kind # "number" THEN InvalidType(a.v, "u64")
        ELSE IF b.some /\ b.v.kind # "number" THEN InvalidType(b.v, "u64")
        ELSE IF ~a.some THEN DecodeError("missing field 'a'")
        ELSE IF ~b.some THEN DecodeError("missing field 'b'")
        ELSE Decoded(Object(<< <<"a", a.v>>, <<"b", b.v>> >>))

\* {content_type}::deserialize(resource.to_owned())
TypeDeserialize(ty, resource) ==
    CASE ty \in {"u64", "u32"} ->
            IF resource.kind = "number" THEN Decoded(resource) ELSE InvalidType(resource, ty)
      [] ty = "String" ->
            IF resource.kind = "string" THEN Decoded(resource)
            ELSE InvalidType(resource, "a string")
      [] ty = "Complex" -> ComplexDeserialize(resource)
      [] OTHER -> Decoded(resource)

(***************************************************************************)
(* The generated deserialize function.                                      *)
(***************************************************************************)
\* decoder: the type whose deserialize the call ran, "" when it ran none.
Ok(variant, payload, decoder) ==
    [ok |-> TRUE, msg |-> "", variant |-> variant, payload |-> payload, decoder |-> decoder]

Err(msg, decoder) ==
    [ok |-> FALSE, msg |-> msg, variant |-> "", payload |-> Null, decoder |-> decoder]

NoResult == [ok |-> FALSE, msg |-> "", variant |-> "", payload |-> Null, decoder |-> ""]

\* The body of an if-arm whose comparison held.
RunIfBranch(arm, resource) ==
    LET r == TypeDeserialize(arm.ty, resource)
    IN  IF r.ok THEN Ok(arm.ctor, r.v, arm.ty) ELSE Err(r.msg, arm.ty)

\* The body of the closing block.
RunElseBranch(block, resource) == Ok(block.ctor, resource, "")

\* Faulty variant: an arm whose payload decoder fails is passed over, as serde's own
\* derive does, so the chain ends in the fallback.
RECURSIVE RunIfElseTree_FallbackOnError(_, _, _, _)
RunIfElseTree_FallbackOnError(toks, i, resource_type, resource) ==
    IF toks[i].kind = "if"
    THEN IF resource_type = toks[i].lit /\ RunIfBranch(toks[i], resource).ok
         THEN RunIfBranch(toks[i], resource)
         ELSE RunIfElseTree_FallbackOnError(toks, i + 2, resource_type, resource)
    ELSE RunElseBranch(toks[i], resource)

\* The chain from token i (an if-arm or the closing block) on.
RECURSIVE RunIfElseTree(_, _, _, _)
RunIfElseTree(toks, i, resource_type, resource) ==
    IF toks[i].kind = "if"
    THEN IF resource_type = toks[i].lit
         THEN RunIfBranch(toks[i], resource)
         ELSE RunIfElseTree(toks, i + 2, resource_type, resource)
    ELSE RunElseBranch(toks[i], resource)

\* Faulty variant: the arms are given the whole document, not the content node.
deserialize_WholeValue(exp, v) ==
    LET tag == ValueGet(v, exp.tag_attribute)
        resource_type == as_str(tag.v)
        resource == ValueGet(v, exp.content_attribute)
    IN  IF ~tag.some
        THEN Err("missing field '" \o exp.tag_attribute \o "'", "")
        ELSE IF ~resource_type.some
        THEN Err("'" \o exp.tag_attribute \o "' is not of type 'string'", "")
        ELSE IF ~resource.some
        THEN Err("missing field '" \o exp.content_attribute \o "'", "")
        ELSE RunIfElseTree(exp.if_else_tree, 1, resource_type.v, v)

\* Faulty variant: the content field is looked up before the tag field.
deserialize_ContentFirst(exp, v) ==
    LET tag == ValueGet(v, exp.tag_attribute)
        resource_type == as_str(tag.v)
        resource == ValueGet(v, exp.content_attribute)
    IN  IF ~resource.some
        THEN Err("missing field '" \o exp.content_attribute \o "'", "")
        ELSE IF ~tag.some
        THEN Err("missing field '" \o exp.tag_attribute \o "'", "")
        ELSE IF ~resource_type.some
        THEN Err("'" \o exp.tag_attribute \o "' is not of type 'string'", "")
        ELSE RunIfElseTree(exp.if_else_tree, 1, resource_type.v, resource.v)

\* Faulty variant: a document that is no object is refused before any lookup.
deserialize_RejectsNonObject(exp, v) ==
    LET tag == ValueGet(v, exp.tag_attribute)
        resource_type == as_str(tag.v)
        resource == ValueGet(v, exp.content_attribute)
    IN  IF v.kind # "object"
        THEN Err("invalid type: " \o v.kind \o ", expected an object", "")
        ELSE IF ~tag.some
        THEN Err("missing field '" \o exp.tag_attribute \o "'", "")
        ELSE IF ~resource_type.some
        THEN Err("'" \o exp.tag_attribute \o "' is not of type 'string'", "")
        ELSE IF ~resource.some
        THEN Err("missing field '" \o exp.content_attribute \o "'", "")
        ELSE RunIfElseTree(exp.if_else_tree, 1, resource_type.v, resource.v)

deserialize(exp, v) ==
    LET tag == ValueGet(v, exp.tag_attribute)
        resource_type == as_str(tag.v)
        resource == ValueGet(v, exp.content_attribute)
    IN  IF ~tag.some
        THEN Err("missing field '" \o exp.tag_attribute \o "'", "")
        ELSE IF ~resource_type.some
        THEN Err("'" \o exp.tag_attribute \o "' is not of type 'string'", "")
        ELSE IF ~resource.some
        THEN Err("missing field '" \o exp.content_attribute \o "'", "")
        ELSE RunIfElseTree(exp.if_else_tree, 1, resource_type.v, resource.v)

(***************************************************************************)
(* The declarations the macro is applied to and the documents decoded.      *)
(***************************************************************************)
U64 == TypePath(<<"u64">>)

ComplexType == TypePath(<<"Complex">>)

JsonValue == TypePath(<<"serde_json", "Value">>)

Untagged == << Attribute("serde", << Meta("untagged") >>) >>

VariantPool ==
    { Variant("Number", <<>>, << U64 >>),
      Variant("String", <<>>, << TypePath(<<"String">>) >>),
      Variant("Complex", << Attribute("doc", <<>>) >>, << ComplexType >>),
      Variant("Unknown", Untagged, << JsonValue >>),
      Variant("Other", Untagged, << JsonValue >>),
      Variant("Number", << Attribute("serde", << MetaNameValue("rename", "number") >>) >>,
              << U64 >>),
      Variant("Number",
              << Attribute("serde",
                     << MetaNameValue("deserialize_with", "always_returns_five") >>) >>,
              << TypePath(<<"u32">>) >>),
      Variant("Empty", <<>>, <<>>),
      Variant("Raw", Untagged, << TypeOther >>),
      Variant("Pair", <<>>, << U64, TypeOther, ComplexType >>),
      Variant("Unknown", Untagged, << U64 >>) }

TagContent(tag, content) ==
    << Attribute("serde", << MetaNameValue("tag", tag), MetaNameValue("content", content) >>) >>

EnumAttrPool ==
    { TagContent("resourceType", "resource"),
      << Attribute("serde", << MetaNameValue("tag", "type") >>),
         Attribute("doc", <<>>),
         Attribute("serde", << MetaNameValue("content", "data") >>) >>,
      << Attribute("serde", << MetaNameValue("tag", "resourceType") >>) >>,
      << Attribute("serde", << MetaNameValue("content", "resource") >>) >>,
      << Attribute("doc", <<>>) >>,
      << Attribute("serde", << MetaNameValue("tag", "resourceType"),
                               MetaNameValue("content", "resource"),
                               MetaNameValue("rename_all", "camelCase") >>) >> }

\* An enum's variants carry distinct identifiers.
VariantLists ==
    { vs \in UNION { [1..n -> VariantPool] : n \in 0..MaxVariants } :
        \A i, j \in 1..Len(vs) : vs[i].ident = vs[j].ident => i = j }

Declarations ==
    { DeriveInput(attrs, "ResourceStruct", "enum", vs) :
        attrs \in EnumAttrPool, vs \in VariantLists }
    \cup { DeriveInput(attrs, "ResourceStruct", data, <<>>) :
             attrs \in EnumAttrPool, data \in {"struct", "union"} }

FieldNames == { <<"resourceType", "resource">>, <<"type", "data">> }

TagValues ==
    { Number(7), String("Number"), String("String"), String("Complex"), String("Unknown"), String("Other"),
      String("number"), String("NEWRANDOMTYPE") }

ContentValues ==
    { Number(1), Number(2000), String("text"),
      Object(<< <<"a", Number(2000)>> >>),
      Object(<< <<"a", Number(2000)>>, <<"b", Number(3000)>> >>),
      Object(<< <<"a", Number(2000)>>, <<"b", Number(3000)>>, <<"c", Number(4000)>> >>),
      Object(<< <<"d", Number(5000)>> >>) }

Member(key, opt) == IF opt.some THEN << <<key, opt.v>> >> ELSE <<>>

Documents ==
    { Object(Member("unrelated", unrelated) \o Member(names[1], tag) \o Member(names[2], content)) :
        names \in FieldNames,
        unrelated \in {NoneValue, Some(Number(1234))},
        tag \in {NoneValue} \cup {Some(t) : t \in TagValues},
        content \in {NoneValue} \cup {Some(c) : c \in ContentValues} }
    \cup { Null, Bool, Array, Number(2000), String("Number") }

(***************************************************************************)
(* The state machine.                                                       *)
(***************************************************************************)
Init ==
    /\ input \in Declarations
    /\ pc = "declared"
    /\ expansion = NotExpanded
    /\ value = Null
    /\ result = NoResult

\* The compiler runs the derive macro on the declaration.
DeriveEnum ==
    /\ pc = "declared"
    /\ expansion' = derive_enum(input)
    /\ pc' = IF expansion'.status = "panic" THEN "panicked" ELSE "expanded"
    /\ UNCHANGED <<input, value, result>>

\* The compiler compiles the expansion together with the declaration.
Compile ==
    /\ pc = "expanded"
    /\ pc' = IF Compiles(input, expansion) THEN "compiled" ELSE "rejected"
    /\ UNCHANGED <<input, expansion, value, result>>

\* serde_json::from_value::<ResourceStruct>(v)
Deserialize ==
    /\ pc = "compiled"
    /\ \E v \in Documents :
          /\ value' = v
          /\ result' = deserialize(expansion, v)
    /\ pc' = "decoded"
    /\ UNCHANGED <<input, expansion>>

\* The caller drops the result; the function can be called again.
Return ==
    /\ pc = "decoded"
    /\ pc' = "compiled"
    /\ value' = Null
    /\ result' = NoResult
    /\ UNCHANGED <<input, expansion>>

Next == DeriveEnum \/ Compile \/ Deserialize \/ Return

Spec == Init /\ [][Next]_vars

(***************************************************************************)
(* Vocabulary of the properties, read off the declaration and the document  *)
(* rather than off what derive_enum extracted.                              *)
(***************************************************************************)
Contains(s, sub) ==
    \E i \in 1..(Len(s) + 1 - Len(sub)) : SubSeq(s, i, i + Len(sub) - 1) = sub

Quoted(name) == "'" \o name \o "'"

SerdeMetas(attrs) ==
    UNION { { attrs[i].metas[j] : j \in 1..Len(attrs[i].metas) } :
              i \in { k \in 1..Len(attrs) : attrs[k].path = "serde" } }

\* The literal a container attribute `name = "literal"` declares, if any.
Declares(item, name) == \E m \in SerdeMetas(item.attrs) : m.name = name /\ m.hasValue

Declared(item, name) ==
    (CHOOSE m \in SerdeMetas(item.attrs) : m.name = name /\ m.hasValue).value

TagField == Declared(input, "tag")

ContentField == Declared(input, "content")

VariantsOf(item) == { item.variants[i] : i \in 1..Len(item.variants) }

MarkedFallback(v) == \E m \in SerdeMetas(v.attrs) : m.name = "untagged"

TypedVariants(item) == { v \in VariantsOf(item) : ~MarkedFallback(v) }

FallbackVariants(item) == { v \in VariantsOf(item) : MarkedFallback(v) }

\* No field of the variant names a payload type.
Unresolvable(v) == \A i \in 1..Len(v.fields) : ~v.fields[i].isPath

\* The variant carries `name = "literal"`.
Overrides(v, name) == \E m \in SerdeMetas(v.attrs) : m.name = name /\ m.hasValue

\* The payload decoder of a one-field variant.
PayloadDecode(v, content) == TypeDeserialize(path_to_ident(v.fields[1]), content)

\* The document of the last call and its tag and content nodes.
CallReturned == pc = "decoded"

DocTag == ValueGet(value, TagField)

DocContent == ValueGet(value, ContentField)

HasStringTag == DocTag.some /\ DocTag.v.kind = "string"

\* The typed variants whose name is the document's tag string.
Matching == { v \in TypedVariants(input) : v.ident = DocTag.v.str }

(***************************************************************************)
(* Properties.                                                              *)
(***************************************************************************)

\* C1: when the tag string names a typed variant and the content fails that
\* variant's payload decoder, the call returns an error carrying the payload
\* decoder's message; it returns no variant, fallback or other.
C1_MalformedKnownTagIsAnError ==
    \A v \in TypedVariants(input) :
        (/\ CallReturned
         /\ HasStringTag
         /\ DocContent.some
         /\ v \in Matching
         /\ ~PayloadDecode(v, DocContent.v).ok)
        => /\ ~result.ok
           /\ result.variant = ""
           /\ result.msg = PayloadDecode(v, DocContent.v).msg

C1_Witness ==
    /\ CallReturned
    /\ HasStringTag /\ DocTag.v.str = "Complex"
    /\ DocContent = Some(Object(<< <<"a", Number(2000)>> >>))
    /\ \E v \in Matching : ~PayloadDecode(v, DocContent.v).ok
    /\ result.msg = "missing field 'b'"

\* C2: when the document has a string tag and a content node and the tag
\* names no typed variant (the fallback's own name included), the call
\* succeeds with a fallback variant holding the content node itself, and no
\* payload decoder has run.
C2_UnknownTagIsFallback ==
    (/\ CallReturned
     /\ HasStringTag
     /\ DocContent.some
     /\ Matching = {})
    => /\ result.ok
       /\ \E f \in FallbackVariants(input) : result.variant = f.ident
       /\ result.payload = DocContent.v
       /\ result.decoder = ""

C2_Witness ==
    /\ CallReturned
    /\ HasStringTag /\ DocTag.v.str = "Unknown"
    /\ \E f \in FallbackVariants(input) : f.ident = "Unknown"
    /\ TypedVariants(input) # {}
    /\ DocContent = Some(Object(<< <<"d", Number(5000)>> >>))
    /\ result.ok /\ result.payload = Object(<< <<"d", Number(5000)>> >>)

\* The first variant in declaration order that is typed and named `name`.
FirstTyped(item, name) ==
    item.variants[CHOOSE i \in 1..Len(item.variants) :
                      /\ item.variants[i] \in TypedVariants(item)
                      /\ item.variants[i].ident = name
                      /\ \A j \in 1..(i - 1) :
                            ~(/\ item.variants[j] \in TypedVariants(item)
                              /\ item.variants[j].ident = name)]

\* C3: when the tag string names a typed variant and the content satisfies
\* its payload decoder, the call succeeds with that variant (the first so
\* named) holding the decoder's result; the result is fixed by the tag and
\* content nodes alone.
C3_WellFormedKnownTagDecodes ==
    (/\ CallReturned
     /\ HasStringTag
     /\ DocContent.some
     /\ Matching # {}
     /\ PayloadDecode(FirstTyped(input, DocTag.v.str), DocContent.v).ok)
    => /\ result.ok
       /\ result.variant = FirstTyped(input, DocTag.v.str).ident
       /\ result.payload = PayloadDecode(FirstTyped(input, DocTag.v.str), DocContent.v).v

C3_Witness ==
    /\ CallReturned
    /\ ValueGet(value, "unrelated").some
    /\ HasStringTag /\ DocTag.v.str = "Complex"
    /\ DocContent.some /\ ValueGet(DocContent.v, "c").some
    /\ Matching # {}
    /\ result.ok /\ result.variant = "Complex"
    /\ result.payload = Object(<< <<"a", Number(2000)>>, <<"b", Number(3000)>> >>)

\* C4: for an object document, an absent tag field is an error naming the
\* tag field, a tag that is no string is an error naming the tag field, and
\* with a string tag an absent content field is an error naming the content
\* field; no variant is returned, and the tag is examined before the content.
C4_RequiredFields ==
    (CallReturned /\ value.kind = "object")
    => /\ ~DocTag.some
          => /\ ~result.ok /\ result.variant = ""
             /\ Contains(result.msg, Quoted(TagField))
       /\ (DocTag.some /\ DocTag.v.kind # "string")
          => /\ ~result.ok /\ result.variant = ""
             /\ Contains(result.msg, Quoted(TagField))
       /\ (HasStringTag /\ ~DocContent.some)
          => /\ ~result.ok /\ result.variant = ""
             /\ Contains(result.msg, Quoted(ContentField))
             /\ ~Contains(result.msg, Quoted(TagField))

C4_Witness ==
    /\ CallReturned
    /\ value.kind = "object"
    /\ DocTag.some /\ DocTag.v.kind = "number"
    /\ ~DocContent.some
    /\ ~result.ok
    /\ Contains(result.msg, Quoted(TagField))

\* The build went through: the dispatcher exists.
AcceptedByBuild == pc \in {"compiled", "decoded"}

\* C5: a declaration is accepted only if exactly one of its variants carries
\* the fallback marker; with none, or with two or more, the build fails and
\* no dispatcher exists.
C5_ExactlyOneFallback ==
    AcceptedByBuild => Cardinality(FallbackVariants(input)) = 1

\* A declaration in the shape of the tests' ResourceStructWithRename and
\* ResourceStructWithDeserializeWith: tag and content declared, one typed
\* variant carrying `override = ".."`, one fallback holding a Value.
OverrideDeclaration(override) ==
    /\ input.data = "enum"
    /\ input.attrs = TagContent("resourceType", "resource")
    /\ Len(input.variants) = 2
    /\ Overrides(input.variants[1], override)
    /\ ~MarkedFallback(input.variants[1])
    /\ Len(input.variants[1].fields) = 1 /\ input.variants[1].fields[1].isPath
    /\ input.variants[2] = Variant("Unknown", Untagged, << JsonValue >>)

OverrideOf(v, name) ==
    (CHOOSE m \in SerdeMetas(v.attrs) : m.name = name /\ m.hasValue).value

Record(tag, content) ==
    Object(<< <<"resourceType", String(tag)>>, <<"resource", content>> >>)

\* C6: for a typed variant carrying a rename override, a record whose tag
\* is the override name and whose content the payload decoder accepts
\* decodes to that variant, not to the fallback.
C6_RenameIsTheMatchKey ==
    (pc # "declared" /\ OverrideDeclaration("rename"))
    => /\ pc # "panicked"
       /\ pc # "rejected"
       /\ LET v == input.variants[1]
              r == deserialize(expansion, Record(OverrideOf(v, "rename"), Number(1)))
          IN  r.ok /\ r.variant = v.ident

\* C7: for a typed variant declaring a custom decode function, a record
\* whose tag matches is decoded by that function in place of the payload
\* type's decoder: with a function that always yields 5, content 1 decodes
\* to Number(5).
C7_DeserializeWithIsCalled ==
    (pc # "declared" /\ OverrideDeclaration("deserialize_with"))
    => /\ pc # "panicked"
       /\ pc # "rejected"
       /\ LET v == input.variants[1]
              r == deserialize(expansion, Record(v.ident, Number(1)))
          IN  r.ok /\ r.variant = v.ident /\ r.payload = Number(5)

\* The error an object without the tag field produces.
MissingTagError == deserialize(expansion, Object(<<>>))

\* C8 as stated: a document that is no object fails with an error of its
\* own class, distinct from the missing-tag-field error of an object.
C8_NotAnObjectIsItsOwnError ==
    (CallReturned /\ value.kind # "object")
    => /\ ~result.ok
       /\ result.msg # MissingTagError.msg

\* C8 amended: a document that is no object fails, with the very error an
\* object lacking the tag field produces: missing field '<tag field>'.
C8_NotAnObjectIsMissingTag ==
    (CallReturned /\ value.kind # "object")
    => /\ ~result.ok
       /\ result.variant = ""
       /\ result.msg = "missing field " \o Quoted(TagField)

C8_Witness ==
    /\ CallReturned
    /\ value = Array
    /\ ~result.ok
    /\ result.msg = "missing field 'resourceType'"

\* The declaration has one of the four defects.
SchemaDefect(item) ==
    \/ Len(item.variants) = 0
    \/ ~Declares(item, "tag")
    \/ ~Declares(item, "content")
    \/ \E v \in VariantsOf(item) : Unresolvable(v)

BuildFailed ==
    /\ pc = "panicked"
    /\ expansion.status = "panic"
    /\ expansion.if_else_tree = <<>>

\* C9 as stated: a declaration with no variants, without the tag
\* declaration, without the content declaration, or with a variant (fallback
\* or typed) whose payload type cannot be resolved fails the build, no
\* dispatcher is generated, and in the last case the message names the
\* offending variant.
C9_SchemaErrorsNameTheVariant ==
    (pc # "declared" /\ SchemaDefect(input))
    => /\ BuildFailed
       /\ (\E v \in VariantsOf(input) : Unresolvable(v))
          => \E v \in VariantsOf(input) :
                 Unresolvable(v) /\ Contains(expansion.msg, v.ident)

\* Every serde item with a value is one of `names`, and those have a value.
ReadsCleanly(attrs, names) ==
    \A m \in SerdeMetas(attrs) : m.hasValue <=> m.name \in names

\* Extraction gets as far as resolving variant k, the first unresolvable one.
ResolutionReaches(item, k) ==
    /\ item.data = "enum"
    /\ Declares(item, "tag") /\ Declares(item, "content")
    /\ ReadsCleanly(item.attrs, {"tag", "content"})
    /\ k \in 1..Len(item.variants)
    /\ Unresolvable(item.variants[k])
    /\ \A j \in 1..(k - 1) : ~Unresolvable(item.variants[j])
    /\ \A j \in 1..k : ReadsCleanly(item.variants[j].attrs, {})

\* C9 amended: each of the four defects fails the build and no dispatcher is
\* generated; the message names the first offending variant whenever
\* extraction gets as far as resolving it (tag and content declared, no
\* attribute up to that variant failing to parse); an earlier failure
\* reports itself instead.
C9_SchemaErrorsFailTheBuild ==
    (pc # "declared" /\ SchemaDefect(input))
    => /\ BuildFailed
       /\ \A k \in 1..Len(input.variants) :
              ResolutionReaches(input, k)
              => expansion.msg = "Unable to resolve inner type of " \o input.variants[k].ident

C9_Witness ==
    /\ pc = "panicked"
    /\ Len(input.variants) = 3
    /\ ResolutionReaches(input, 3)
    /\ MarkedFallback(input.variants[3])
    /\ expansion.msg = "Unable to resolve inner type of Raw"

\* Zero or more if-arms joined by else and closed by the fallback block,
\* which follows an else only when an if-arm precedes it.
ChainWellFormed(toks) ==
    /\ Len(toks) >= 1
    /\ toks[Len(toks)].kind = "block"
    /\ Len(toks) % 2 = 1
    /\ \A i \in 1..(Len(toks) - 1) :
          toks[i].kind = IF i % 2 = 1 THEN "if" ELSE "else"

\* C10: for every declaration extraction accepts, one whose only variant is
\* the fallback included, the generated chain is well-formed; with no typed
\* variant the dispatcher is still built.
C10_ChainIsWellFormed ==
    expansion.status = "expanded"
    => /\ ChainWellFormed(expansion.if_else_tree)
       /\ (/\ TypedVariants(input) = {}
           /\ \A f \in FallbackVariants(input) : f.fields = << JsonValue >>)
          => pc # "rejected"

====
